---- MODULE Spec2Model ----
(***************************************************************************)
(* The three-stage RAG pipeline of this repository as a state machine:     *)
(*   search_ddg.search_duckduckgo  ->  rag_agent.rag_answer  ->            *)
(*   evaluator.evaluate_response, driven by cli.main.                      *)
(*                                                                         *)
(* Python values are records [t, n, s]: t is the Python type, n the number *)
(* of an int/bool (floats with one decimal are kept in tenths), s the text *)
(* of a str.  A text is a sequence of atoms: an atom is one whitespace     *)
(* character (" " or "\n"), one bracket ("[" or "]"), or a run of other    *)
(* characters holding neither whitespace nor brackets.                     *)
(***************************************************************************)
EXTENDS Integers, Sequences, FiniteSets, TLC

\* ------------------------------------------------------------------ bounds
\* Longest stream the mocked search backend yields.
MaxYield == 2
\* Largest max_results tried (the smallest is MinK).
MaxK == 2
\* Longest answer, in words, handed to evaluate_response directly.
MaxWords == 22
\* How many times evaluate_response is called on the same inputs.
MaxRepeat == 2

\* ---------------------------------------------------------- Python values
PyNone == [t |-> "NoneType", n |-> 0, s |-> <<>>]
PyStr(s) == [t |-> "str", n |-> 0, s |-> s]
PyInt(i) == [t |-> "int", n |-> i, s |-> <<>>]
PyBool(b) == [t |-> "bool", n |-> IF b THEN 1 ELSE 0, s |-> <<>>]
\* A float with one decimal, in tenths.
PyFloat(tenths) == [t |-> "float", n |-> tenths, s |-> <<>>]

\* Python truthiness: None, "", 0 and False are falsy.
Truthy(v) ==
  CASE v.t = "NoneType" -> FALSE
    [] v.t = "str" -> v.s # <<>>
    [] OTHER -> v.n # 0

\* Python's `a or b`.
PyOr(a, b) == IF Truthy(a) THEN a ELSE b

\* dict.get(key, default) on a dict kept as a function.
Get(d, key, default) == IF key \in DOMAIN d THEN d[key] ELSE default

IsSpace(a) == a \in {" ", "\n"}

\* str.strip(): drop leading and trailing whitespace.
RECURSIVE LStrip(_)
LStrip(s) == IF s # <<>> /\ IsSpace(Head(s)) THEN LStrip(Tail(s)) ELSE s
RECURSIVE RStrip(_)
RStrip(s) ==
  IF s # <<>> /\ IsSpace(s[Len(s)]) THEN RStrip(SubSeq(s, 1, Len(s) - 1)) ELSE s
Strip(s) == RStrip(LStrip(s))

\* len(str.split()): the number of maximal runs of non-whitespace.
WordCount(s) ==
  Cardinality({i \in 1..Len(s) : ~IsSpace(s[i]) /\ (i = 1 \/ IsSpace(s[i - 1]))})

\* `c in s` for a one-character c that is an atom of its own.
HasChar(s, c) == \E i \in 1..Len(s) : s[i] = c

\* str(i) / f"{i}" of a non-negative int, one atom per digit.
Digit == <<"0", "1", "2", "3", "4", "5", "6", "7", "8", "9">>
RECURSIVE DecStr(_)
DecStr(i) ==
  IF i < 10 THEN <<Digit[i + 1]>> ELSE DecStr(i \div 10) \o <<Digit[(i % 10) + 1]>>

\* sep.join(parts)
RECURSIVE Join(_, _)
Join(parts, sep) ==
  IF parts = <<>> THEN <<>>
  ELSE IF Len(parts) = 1 THEN parts[1]
  ELSE parts[1] \o sep \o Join(Tail(parts), sep)

\* round(num / den, 1) in tenths, for den > 0: Python rounds half to even; the
\* quotients met here are never ties that floating point could tip.
RoundTenths(num, den) ==
  LET q == (10 * num) \div den
      r == (10 * num) % den
  IN  IF 2 * r > den \/ (2 * r = den /\ q % 2 = 1) THEN q + 1 ELSE q

\* ------------------------------------------------------------ search_ddg
\* Items the backend may yield: dicts with the heterogeneous key names the
\* search function reads; an absent key reads as None through item.get.
RawItems ==
  { [title |-> PyStr(<<"T1">>), link |-> PyNone, url |-> PyNone,
     href |-> PyStr(<<"U1">>), body |-> PyStr(<<"B1">>), desc |-> PyNone],
    [title |-> PyNone, link |-> PyStr(<<>>), url |-> PyStr(<<"U2">>),
     href |-> PyStr(<<"U3">>), body |-> PyStr(<<>>), desc |-> PyStr(<<"D2">>)],
    [title |-> PyStr(<<>>), link |-> PyNone, url |-> PyNone,
     href |-> PyStr(<<>>), body |-> PyNone, desc |-> PyStr(<<>>)] }

\* The dict appended for one backend item.
Normalize(item) ==
  [title |-> item.title,
   url |-> PyOr(PyOr(item.link, item.url), item.href),
   description |-> PyOr(PyOr(item.body, item.desc), PyNone)]

\* Mutant of LoopBreaks: the test is off by one.
LoopBreaksLate(n, k) == n > k

\* The loop's exit test after an append.
LoopBreaks(n, k) == n >= k

\* ------------------------------------------------------------- rag_agent
NoTitle == <<"(no", " ", "title)">>
NoUrl == <<"(no", " ", "url)">>

\* f"[{i}] {title}\n{url}\n{desc}"
Doc(i, r) ==
  <<"[">> \o DecStr(i) \o <<"]", " ">>
    \o PyOr(r.title, PyStr(NoTitle)).s \o <<"\n">>
    \o PyOr(r.url, PyStr(NoUrl)).s \o <<"\n">>
    \o PyOr(r.description, PyStr(<<>>)).s

\* "\n\n".join(docs)
BuildContext(res) == Join([i \in 1..Len(res) |-> Doc(i, res[i])], <<"\n", "\n">>)

\* The fixed no-key text (the backquotes around openai are left out: they add
\* no whitespace and no bracket).
NoKeyText ==
  <<"No", " ", "DEEPSEEK_API_KEY", " ", "set", " ", "or", " ", "openai", " ",
    "package", " ", "not", " ", "found.", " ", "Returning", " ", "aggregated",
    " ", "search", " ", "snippets:", "\n", "\n">>

\* Mutant of ErrorAnswer: the context is left out of the fallback text.
ErrorAnswerNoContext(msg, ctx) ==
  <<"DeepSeek", " ", "API", " ", "error:", " ">> \o msg

\* f"DeepSeek API error: {str(e)}\n\nFallback search results:\n{context}"
ErrorAnswer(msg, ctx) ==
  <<"DeepSeek", " ", "API", " ", "error:", " ">> \o msg
    \o <<"\n", "\n", "Fallback", " ", "search", " ", "results:", "\n">> \o ctx

\* Mutant of RagUsesModel: the key is tested with `is not None`.
RagUsesModelIfSet(key) == key.t # "NoneType"

\* `if api_key and OpenAI is not None`: openai is imported unconditionally, so
\* the test is the key's truthiness.
RagUsesModel(key) == Truthy(key)

\* What the completion endpoint does on the one call rag_answer makes: it
\* raises, returns no choices, returns a message without content, or text.
RagReplies ==
  { [kind |-> "raise", text |-> <<"Request", " ", "timed", " ", "out.">>],
    [kind |-> "nochoices", text |-> <<>>],
    [kind |-> "nonecontent", text |-> <<>>],
    [kind |-> "ok", text |-> <<" ", "Rust", " ", "moves", " ", "[", "1", "]", "\n">>],
    [kind |-> "ok", text |-> <<>>] }

\* str(e) of the exception caught around the completion call and the parse.
ErrText(kind) ==
  CASE kind = "nochoices" ->
         <<"list", " ", "index", " ", "out", " ", "of", " ", "range">>
    [] kind = "nonecontent" ->
         <<"'NoneType'", " ", "object", " ", "has", " ", "no", " ", "attribute",
           " ", "'strip'">>
    [] kind = "notjson" ->
         <<"Expecting", " ", "value:", " ", "line", " ", "1", " ", "column", " ",
           "1", " ", "(char", " ", "0)">>
    [] kind = "nonobject" ->
         <<"'list'", " ", "object", " ", "has", " ", "no", " ", "attribute", " ",
           "'get'">>
    [] OTHER ->
         <<"can't", " ", "multiply", " ", "sequence", " ", "by", " ", "non-int",
           " ", "of", " ", "type", " ", "'float'">>

\* The answer rag_answer builds from the completion's outcome.
RagAnswerText(reply, ctx) ==
  CASE reply.kind = "ok" -> Strip(reply.text)
    [] reply.kind = "raise" -> ErrorAnswer(reply.text, ctx)
    [] OTHER -> ErrorAnswer(ErrText(reply.kind), ctx)

\* ------------------------------------------------------------- evaluator
ScoreKeys == {"accuracy_score", "relevance_score", "search_quality", "citation_quality"}
TextKeys == {"feedback", "strengths", "opportunity"}

\* `if not api_key or OpenAI is None: return _fallback_evaluation(...)`
EvalUsesModel(key) == Truthy(key)

\* eval_dict.get(key, 5) * weight: the product is a number only for a number.
IsNumber(v) == v.t \in {"int", "bool", "float"}

\* Mutant of WeightedSum: the four scores weigh the same.
WeightedSumEqual(d) ==
  25 * Get(d, "accuracy_score", PyInt(5)).n
    + 25 * Get(d, "relevance_score", PyInt(5)).n
    + 25 * Get(d, "search_quality", PyInt(5)).n
    + 25 * Get(d, "citation_quality", PyInt(5)).n

\* The weighted sum of the four scores in hundredths (0.3 = 30/100, 0.1 = 10/100),
\* each missing score read as 5.
WeightedSum(d) ==
  30 * Get(d, "accuracy_score", PyInt(5)).n
    + 30 * Get(d, "relevance_score", PyInt(5)).n
    + 30 * Get(d, "search_quality", PyInt(5)).n
    + 10 * Get(d, "citation_quality", PyInt(5)).n

\* The dict of the except branch.
NeutralReport(msg) ==
  [k \in ScoreKeys \cup TextKeys \cup {"overall_score"} |->
     CASE k \in ScoreKeys -> PyInt(5)
       [] k = "overall_score" -> PyFloat(50)
       [] k = "feedback" ->
            PyStr(<<"Evaluation", " ", "failed:", " ">> \o msg
                    \o <<".", " ", "Using", " ", "neutral", " ", "scores.">>)
       [] OTHER ->
            PyStr(<<"Evaluation", " ", "system", " ", "error,", " ", "unable", " ",
                    "to", " ", "evaluate.">>)]

\* The try block of evaluate_response on one outcome of the completion call:
\* reply.kind is "raise" (the call raises, str(e) = reply.text), "nochoices",
\* "nonecontent", "notjson" (json.loads raises), "nonobject" (the JSON value
\* has no .get) or "object" (reply.obj is the parsed dict).
ModelEvaluation(reply) ==
  CASE reply.kind = "raise" -> NeutralReport(reply.text)
    [] reply.kind # "object" -> NeutralReport(ErrText(reply.kind))
    [] OTHER ->
       LET d == reply.obj IN
       IF \A k \in ScoreKeys \cap DOMAIN d : IsNumber(d[k])
       THEN [k \in DOMAIN d \cup {"overall_score"} |->
               IF k = "overall_score" THEN PyFloat(RoundTenths(WeightedSum(d), 100))
               ELSE d[k]]
       ELSE NeutralReport(ErrText("typeerror"))

\* Mutant of HasCitations: `or` for `and`.
HasCitationsEither(answer) == HasChar(answer, "[") \/ HasChar(answer, "]")

\* has_citations
HasCitations(answer) == HasChar(answer, "[") /\ HasChar(answer, "]")

\* _fallback_evaluation
FallbackEvaluation(answer, sources, key) ==
  LET answer_len == WordCount(answer)
      accuracy == IF Len(sources) > 0 THEN 6 ELSE 4
      relevance == IF answer_len > 20 THEN 7 ELSE 5
      citation == IF HasCitations(answer) THEN 8 ELSE 4
  IN  [k \in {"accuracy_score", "relevance_score", "citation_quality",
              "overall_score", "feedback", "strengths", "opportunity"} |->
         CASE k = "accuracy_score" -> PyInt(accuracy)
           [] k = "relevance_score" -> PyInt(relevance)
           [] k = "citation_quality" -> PyInt(citation)
           [] k = "overall_score" ->
                PyFloat(RoundTenths(accuracy + relevance + citation, 3))
           [] k = "feedback" ->
                PyStr(<<"Heuristic", " ", "evaluation", " ", "(no", " ", "LLM", " ",
                        "available).", " ", "Actual", " ", "quality", " ", "may",
                        " ", "vary.">>)
           [] k = "strengths" ->
                IF answer_len > 10
                THEN PyStr(<<"Response", " ", "generated", " ", "successfully">>)
                ELSE PyStr(<<"Short", " ", "response">>)
           [] OTHER ->
                IF ~Truthy(key)
                THEN PyStr(<<"Use", " ", "OpenAI", " ", "API", " ", "key", " ", "for",
                             " ", "evaluation">>)
                ELSE PyStr(<<"None", " ", "detected">>)]

\* ------------------------------------------------------------------- cli
\* argparse: --evaluate has default True and no type, so a given value stays
\* the string that was typed; PyNone stands for an omitted option.
ParseEvaluate(opt) == IF opt = PyNone THEN PyBool(TRUE) ELSE opt

\* -n/--max-results: type=int, default 5.
DefaultMaxResults == 5
ParseMaxResults(opt) == IF opt = PyNone THEN PyInt(DefaultMaxResults) ELSE opt

\* The order in which main reads the report's keys while printing.
PrintOrder ==
  <<"accuracy_score", "relevance_score", "search_quality", "citation_quality",
    "overall_score", "feedback", "strengths", "opportunity">>

\* How many keys main prints before eval_result[key] raises KeyError.
PrintedCount(rep) ==
  LET missing == {i \in 1..Len(PrintOrder) : PrintOrder[i] \notin DOMAIN rep}
  IN  IF missing = {} THEN Len(PrintOrder)
      ELSE (CHOOSE i \in missing : \A j \in missing : i <= j) - 1

\* --------------------------------------------------------- the environment
\* Values the model may report for a score: in range, out of range, not a number.
ScoreVals == {PyInt(-2), PyInt(8), PyInt(12), PyStr(<<"8">>)}

FullTexts ==
  [k \in TextKeys |-> PyStr(<<"ok">>)]

\* The reply of the spec's example: accuracy 8, relevance 6, search quality 7,
\* citation quality 9.
ExampleObject ==
  [k \in ScoreKeys |->
     CASE k = "accuracy_score" -> PyInt(8)
       [] k = "relevance_score" -> PyInt(6)
       [] k = "search_quality" -> PyInt(7)
       [] OTHER -> PyInt(9)] @@ FullTexts

\* JSON objects the evaluation model may answer with: any subset of the seven
\* keys, any of ScoreVals for a score.
JsonObjects ==
  {sc @@ tx :
     sc \in UNION {[S -> ScoreVals] : S \in SUBSET ScoreKeys},
     tx \in {[k \in S |-> FullTexts[k]] : S \in SUBSET TextKeys}}
  \cup {ExampleObject}

ObjectReply(d) == [kind |-> "object", text |-> <<>>, obj |-> d]
NoObject == [k \in {} |-> PyNone]
FailReply(kind, msg) == [kind |-> kind, text |-> msg, obj |-> NoObject]

FailReplies ==
  { FailReply("raise", <<"Connection", " ", "error.">>),
    FailReply("nochoices", <<>>), FailReply("nonecontent", <<>>),
    FailReply("notjson", <<>>), FailReply("nonobject", <<>>) }

\* Outcomes of the completion call made by evaluate_response when it is
\* called directly.
EvalReplies == FailReplies \cup {ObjectReply(d) : d \in JsonObjects}

\* Outcomes tried when evaluate_response runs as the last stage of main.
MainEvalReplies ==
  FailReplies \cup
  { ObjectReply(ExampleObject),
    ObjectReply([k \in {"accuracy_score"} |-> PyInt(12)]),
    ObjectReply([k \in ScoreKeys |-> PyStr(<<"8">>)] @@ FullTexts),
    ObjectReply([k \in ScoreKeys \ {"search_quality"} |-> PyInt(8)] @@ FullTexts) }

\* Values of os.environ.get("DEEPSEEK_API_KEY"): unset, empty, set.
EnvKeys == {PyNone, PyStr(<<>>), PyStr(<<"sk-env">>)}

\* Query arguments: a string, an integer, None.
Queries == {PyStr(<<"rust", " ", "ownership">>), PyInt(7), PyNone}

\* max_results arguments, zero and a negative number among them.
KRange == {PyInt(k) : k \in -1..MaxK}

\* Sequences of at most n raw items.
RECURSIVE Streams(_)
Streams(n) ==
  IF n = 0 THEN {<<>>}
  ELSE Streams(n - 1)
         \cup {Append(st, item) : st \in {x \in Streams(n - 1) : Len(x) = n - 1},
                                  item \in RawItems}

\* The mocked backend: it yields `items` in order and then ends, or raises
\* where the next item (or the end) would come.
Backends == [items : Streams(MaxYield), raises : BOOLEAN]
NoBackend == [items |-> <<>>, raises |-> FALSE]

\* An answer of n words, "w w ... w".
RECURSIVE Words(_)
Words(n) ==
  IF n = 0 THEN <<>> ELSE IF n = 1 THEN <<"w">> ELSE Words(n - 1) \o <<" ", "w">>

\* Endings that add brackets to an answer.
Endings == {<<>>, <<" ", "[", "1", "]">>, <<"[">>, <<" ", "]", "[">>, <<"\n", "]">>}

\* Answers handed to evaluate_response directly.
Answers == {Words(n) \o e : n \in 0..MaxWords, e \in Endings}

\* ------------------------------------------------------------------ state
VARIABLES
  entry,          \* the function the run enters: main, rag_answer, ...
  pc,             \* where the run is
  exc,            \* the exception that left the entry function, or "none"
  environ,        \* os.environ.get("DEEPSEEK_API_KEY")
  DDGS,           \* TRUE when the ddgs import succeeded (DDGS is not None)
  backend,        \* what the search backend will do when it is asked
  argv,           \* main's command line
  args,           \* the parsed namespace
  query, max_results,
  results,        \* search_duckduckgo's list
  ragReply,       \* the outcome of rag_answer's completion call
  out,            \* rag_answer's return value / evaluate_response's inputs
  evalReply,      \* the outcome of evaluate_response's completion call
  report, prevReport,
  printed,        \* what main has printed, as labels
  searchCalls, ddgsCalls, ragCompletions, evalCalls, evalCompletions

vars ==
  <<entry, pc, exc, environ, DDGS, backend, argv, args, query, max_results,
    results, ragReply, out, evalReply, report, prevReport, printed, searchCalls,
    ddgsCalls, ragCompletions, evalCalls, evalCompletions>>

NoArgs == [deepseek_key |-> PyNone, evaluate |-> PyNone, max_results |-> PyNone,
           query |-> <<>>]
NoOut == [query |-> PyNone, answer |-> <<>>, sources |-> <<>>]
NoReport == [k \in {} |-> PyNone]
NoRagReply == [kind |-> "none", text |-> <<>>]
NoEvalReply == FailReply("none", <<>>)

\* What every run starts from, whatever it enters.
InitCommon ==
  /\ pc = entry
  /\ exc = "none"
  /\ args = NoArgs
  /\ results = <<>>
  /\ ragReply = NoRagReply
  /\ evalReply = NoEvalReply
  /\ report = NoReport
  /\ prevReport = NoReport
  /\ printed = <<>>
  /\ searchCalls = 0
  /\ ddgsCalls = 0
  /\ ragCompletions = 0
  /\ evalCalls = 0
  /\ evalCompletions = 0

\* main(argv): the query words are given, or none are and input() is read.
InitMain ==
  /\ entry = "main"
  /\ environ \in EnvKeys
  /\ DDGS \in BOOLEAN
  /\ backend \in Backends
  /\ argv \in [deepseek_key : {PyNone, PyStr(<<"sk-arg">>)},
               evaluate : {PyNone, PyStr(<<"true">>), PyStr(<<"false">>), PyStr(<<>>)},
               max_results : {PyNone, PyInt(0), PyInt(MaxK)},
               query : {<<"rust", "ownership">>, <<>>}]
  /\ query = PyNone
  /\ max_results = PyNone
  /\ out = NoOut
  /\ InitCommon

\* rag_answer(query, max_results)
InitRag ==
  /\ entry = "rag_answer"
  /\ environ \in EnvKeys
  /\ DDGS \in BOOLEAN
  /\ backend \in Backends
  /\ argv = NoArgs
  /\ query \in Queries
  /\ max_results \in KRange
  /\ out = NoOut
  /\ InitCommon

\* search_duckduckgo(query, max_results)
InitSearch ==
  /\ entry = "search_duckduckgo"
  /\ environ = PyNone
  /\ DDGS \in BOOLEAN
  /\ backend \in Backends
  /\ argv = NoArgs
  /\ query \in Queries
  /\ max_results \in KRange
  /\ out = NoOut
  /\ InitCommon

\* evaluate_response(query, answer, sources): every answer of Answers on the
\* heuristic path, two of them on the model path (which never reads them).
InitEval ==
  /\ entry = "evaluate_response"
  /\ environ \in EnvKeys
  /\ DDGS = TRUE
  /\ backend = NoBackend
  /\ argv = NoArgs
  /\ query = PyStr(<<"rust", " ", "ownership">>)
  /\ max_results = PyNone
  /\ \E a \in Answers, src \in {<<>>} \cup {<<Normalize(i)>> : i \in RawItems} :
        /\ EvalUsesModel(environ) => (a \in {Words(3), Words(MaxWords)} /\ src = <<>>)
        /\ out = [query |-> query, answer |-> a, sources |-> src]
  /\ InitCommon

Init == InitMain \/ InitRag \/ InitSearch \/ InitEval

\* ---------------------------------------------------------------- actions
\* Where the run goes when `stage` returns: a run that entered `stage` is
\* done, a run that came from a caller goes on to `next`.
Return(stage, next) == IF entry = stage THEN "done" ELSE next

\* main up to the call of rag_answer: parse, --deepseek-key, the query.
MainParse ==
  /\ pc = "main"
  /\ args' = [deepseek_key |-> argv.deepseek_key,
              evaluate |-> ParseEvaluate(argv.evaluate),
              max_results |-> ParseMaxResults(argv.max_results),
              query |-> argv.query]
  /\ environ' = IF Truthy(argv.deepseek_key) THEN argv.deepseek_key ELSE environ
  /\ query' = IF argv.query # <<>>
              THEN PyStr(Join([i \in 1..Len(argv.query) |-> <<argv.query[i]>>], <<" ">>))
              ELSE PyStr(<<"typed">>)
  /\ max_results' = ParseMaxResults(argv.max_results)
  /\ pc' = "rag_answer"
  /\ UNCHANGED <<entry, exc, DDGS, backend, argv, results, ragReply, out,
                 evalReply, report, prevReport, printed, searchCalls, ddgsCalls,
                 ragCompletions, evalCalls, evalCompletions>>

\* Mutant of IsStr: only None is refused.
IsStrNotNone(q) == q.t # "NoneType"

\* isinstance(query, str)
IsStr(q) == q.t = "str"

\* search_duckduckgo up to the loop, called directly or as rag_answer's first
\* statement: the two raises, results = [], DDGS() and text().
SearchCheck ==
  /\ pc \in {"rag_answer", "search_duckduckgo"}
  /\ searchCalls' = searchCalls + 1
  /\ IF ~IsStr(query)
     THEN /\ exc' = "TypeError"
          /\ pc' = "raised"
          /\ UNCHANGED ddgsCalls
     ELSE IF ~DDGS
     THEN /\ exc' = "RuntimeError"
          /\ pc' = "raised"
          /\ UNCHANGED ddgsCalls
     ELSE /\ ddgsCalls' = ddgsCalls + 1
          /\ pc' = "iter"
          /\ UNCHANGED exc
  /\ results' = <<>>
  /\ UNCHANGED <<entry, environ, DDGS, backend, argv, args, query, max_results,
                 ragReply, out, evalReply, report, prevReport, printed,
                 ragCompletions, evalCalls, evalCompletions>>

\* One turn of the loop: the backend yields its next item, it is normalized
\* and appended, and the loop breaks when the list is long enough.
SearchYield ==
  /\ pc = "iter"
  /\ Len(results) < Len(backend.items)
  /\ results' = Append(results, Normalize(backend.items[Len(results) + 1]))
  /\ pc' = IF LoopBreaks(Len(results'), max_results.n)
           THEN Return("search_duckduckgo", "rag_context")
           ELSE "iter"
  /\ UNCHANGED <<entry, exc, environ, DDGS, backend, argv, args, query,
                 max_results, ragReply, out, evalReply, report, prevReport,
                 printed, searchCalls, ddgsCalls, ragCompletions, evalCalls,
                 evalCompletions>>

\* The backend's stream ends: the loop ends and the list is returned.
SearchExhaust ==
  /\ pc = "iter"
  /\ Len(results) = Len(backend.items)
  /\ ~backend.raises
  /\ pc' = Return("search_duckduckgo", "rag_context")
  /\ UNCHANGED <<entry, exc, environ, DDGS, backend, argv, args, query,
                 max_results, results, ragReply, out, evalReply, report,
                 prevReport, printed, searchCalls, ddgsCalls, ragCompletions,
                 evalCalls, evalCompletions>>

\* DDGS(), text() or the iteration raises: `except Exception` prints the error
\* and the list collected so far is returned.
SearchRaise ==
  /\ pc = "iter"
  /\ Len(results) = Len(backend.items)
  /\ backend.raises
  /\ pc' = Return("search_duckduckgo", "rag_context")
  /\ UNCHANGED <<entry, exc, environ, DDGS, backend, argv, args, query,
                 max_results, results, ragReply, out, evalReply, report,
                 prevReport, printed, searchCalls, ddgsCalls, ragCompletions,
                 evalCalls, evalCompletions>>

\* rag_answer after the search: the context, then the no-key return or the
\* way to the completion call.
RagContext ==
  /\ pc = "rag_context"
  /\ IF RagUsesModel(environ)
     THEN /\ pc' = "rag_completion"
          /\ UNCHANGED out
     ELSE /\ out' = [query |-> query,
                     answer |-> NoKeyText \o BuildContext(results),
                     sources |-> results]
          /\ pc' = Return("rag_answer", "main_print")
  /\ UNCHANGED <<entry, exc, environ, DDGS, backend, argv, args, query,
                 max_results, results, ragReply, evalReply, report, prevReport,
                 printed, searchCalls, ddgsCalls, ragCompletions, evalCalls,
                 evalCompletions>>

\* The completion call of rag_answer and both of its returns.
RagCompletion ==
  /\ pc = "rag_completion"
  /\ ragCompletions' = ragCompletions + 1
  /\ \E reply \in RagReplies :
        /\ ragReply' = reply
        /\ out' = [query |-> query,
                   answer |-> RagAnswerText(reply, BuildContext(results)),
                   sources |-> results]
  /\ pc' = Return("rag_answer", "main_print")
  /\ UNCHANGED <<entry, exc, environ, DDGS, backend, argv, args, query,
                 max_results, results, evalReply, report, prevReport, printed,
                 searchCalls, ddgsCalls, evalCalls, evalCompletions>>

\* main prints the answer and the sources, then tests args.evaluate.
MainPrintAnswer ==
  /\ pc = "main_print"
  /\ printed' = <<"answer">> \o [i \in 1..Len(out.sources) |-> "source"]
  /\ pc' = IF Truthy(args.evaluate) THEN "evaluate_response" ELSE "done"
  /\ UNCHANGED <<entry, exc, environ, DDGS, backend, argv, args, query,
                 max_results, results, ragReply, out, evalReply, report,
                 prevReport, searchCalls, ddgsCalls, ragCompletions, evalCalls,
                 evalCompletions>>

\* evaluate_response up to the completion call: the heuristic return when no
\* key is set.
EvalCall ==
  /\ pc = "evaluate_response"
  /\ evalCalls' = evalCalls + 1
  /\ prevReport' = report
  /\ IF EvalUsesModel(environ)
     THEN /\ pc' = "eval_completion"
          /\ UNCHANGED report
     ELSE /\ report' = FallbackEvaluation(out.answer, out.sources, environ)
          /\ pc' = Return("evaluate_response", "main_report")
  /\ UNCHANGED <<entry, exc, environ, DDGS, backend, argv, args, query,
                 max_results, results, ragReply, out, evalReply, printed,
                 searchCalls, ddgsCalls, ragCompletions, evalCompletions>>

\* The completion call of evaluate_response, the parse and both returns.
EvalCompletion ==
  /\ pc = "eval_completion"
  /\ evalCompletions' = evalCompletions + 1
  /\ \E reply \in IF entry = "main" THEN MainEvalReplies ELSE EvalReplies :
        /\ evalReply' = reply
        /\ report' = ModelEvaluation(reply)
  /\ pc' = Return("evaluate_response", "main_report")
  /\ UNCHANGED <<entry, exc, environ, DDGS, backend, argv, args, query,
                 max_results, results, ragReply, out, prevReport, printed,
                 searchCalls, ddgsCalls, ragCompletions, evalCalls>>

\* main prints the report key by key; a key the report lacks raises KeyError.
MainPrintReport ==
  /\ pc = "main_report"
  /\ printed' = printed \o SubSeq(PrintOrder, 1, PrintedCount(report))
  /\ IF PrintedCount(report) < Len(PrintOrder)
     THEN exc' = "KeyError" /\ pc' = "raised"
     ELSE exc' = exc /\ pc' = "done"
  /\ UNCHANGED <<entry, environ, DDGS, backend, argv, args, query, max_results,
                 results, ragReply, out, evalReply, report, prevReport,
                 searchCalls, ddgsCalls, ragCompletions, evalCalls,
                 evalCompletions>>

\* The caller of evaluate_response calls it again with the same arguments
\* while no key is set (the repeated call of the idempotence property).
EvalAgain ==
  /\ pc = "done"
  /\ entry = "evaluate_response"
  /\ ~EvalUsesModel(environ)
  /\ evalCalls < MaxRepeat
  /\ pc' = "evaluate_response"
  /\ UNCHANGED <<entry, exc, environ, DDGS, backend, argv, args, query,
                 max_results, results, ragReply, out, evalReply, report,
                 prevReport, printed, searchCalls, ddgsCalls, ragCompletions,
                 evalCalls, evalCompletions>>

Next ==
  \/ MainParse
  \/ SearchCheck
  \/ SearchYield
  \/ SearchExhaust
  \/ SearchRaise
  \/ RagContext
  \/ RagCompletion
  \/ MainPrintAnswer
  \/ EvalCall
  \/ EvalCompletion
  \/ MainPrintReport
  \/ EvalAgain

Spec == Init /\ [][Next]_vars

\* ----------------------------------------------------------------- claims
Min(a, b) == IF a <= b THEN a ELSE b

\* The text sub occurs in the text s.
Contains(s, sub) ==
  \E i \in 0..(Len(s) - Len(sub)) : SubSeq(s, i + 1, i + Len(sub)) = sub

\* search_duckduckgo has created its backend object and left its loop.
SearchReturned == ddgsCalls > 0 /\ pc # "iter"

\* rag_answer has returned its dict.
RagReturned == entry \in {"main", "rag_answer"} /\ out # NoOut

\* A non-empty key is in the environment.
KeyConfigured == environ.t = "str" /\ environ.s # <<>>

\* The option denotes true: it is omitted, or its value is "true".
DenotesTrue(opt) == opt = PyNone \/ opt = PyStr(<<"true">>)

\* The record the spec asks for from one backend item: the title, the first
\* non-empty of link / url / href, the first non-empty of body / desc.
ExpectedResult(item) ==
  [title |-> item.title,
   url |-> IF Truthy(item.link) THEN item.link
           ELSE IF Truthy(item.url) THEN item.url ELSE item.href,
   description |-> IF Truthy(item.body) THEN item.body
                   ELSE IF Truthy(item.desc) THEN item.desc ELSE PyNone]

\* C1: a run of main with the search backend present never ends in an
\* exception: the answer is printed and, when evaluation was requested, so
\* are all eight fields of the report.
C1_MainNeverRaises ==
  (entry = "main" /\ DDGS) =>
    /\ exc = "none"
    /\ pc = "done" =>
         /\ printed # <<>> /\ printed[1] = "answer"
         /\ DenotesTrue(argv.evaluate) =>
              \A i \in 1..Len(PrintOrder) :
                \E j \in 1..Len(printed) : printed[j] = PrintOrder[i]

\* C2: for a string query and any max_results = k (k >= 0: no list is shorter
\* than a negative k), search_duckduckgo's list is never longer than k, and it
\* is returned empty only if the backend yielded nothing or raised.
C2_AtMostK ==
  (IsStr(query) /\ max_results.t = "int" /\ max_results.n >= 0) =>
    /\ Len(results) <= max_results.n
    /\ (SearchReturned /\ results = <<>>) =>
         (backend.items = <<>> \/ backend.raises)

\* C3: at every point the collected results are the backend's first items,
\* normalized, in the backend's order; with no error and k >= 1 the returned
\* list is exactly the first min(k, n) items; when the backend raises after
\* j < k items nothing propagates and exactly those j items are returned.
C3_ResultsArePrefix ==
  LET k == max_results.n
      n == Len(backend.items)
      m == Len(results)
  IN  /\ m <= n
      /\ \A i \in 1..m : results[i] = ExpectedResult(backend.items[i])
      /\ (SearchReturned /\ max_results.t = "int") =>
           /\ (~backend.raises /\ k >= 1) => m = Min(k, n)
           /\ (backend.raises /\ n < k) =>
                (m = n /\ exc \notin {"TypeError", "RuntimeError"})

\* C3 witness: a backend with more items than max_results, cut at max_results.
C3_Witness ==
  /\ entry = "search_duckduckgo"
  /\ pc = "done"
  /\ ~backend.raises
  /\ max_results.n >= 1
  /\ Len(backend.items) > max_results.n
  /\ Len(results) = max_results.n

\* Every field of an EvaluationReport.
ReportKeys == ScoreKeys \cup TextKeys \cup {"overall_score"}

\* The completion call or the parse of its text failed: the call raised, the
\* response was malformed, the text was not JSON or not an object, or a key
\* of the expected object is missing.
EvalFailed ==
  \/ evalReply.kind # "object"
  \/ (ScoreKeys \cup TextKeys) \ DOMAIN evalReply.obj # {}

\* C4: on the model path evaluate_response always returns a report with all
\* eight fields, and after any failure of the call or the parse the neutral
\* one: four scores of 5, overall 5.0, a feedback naming the error.
C4_ModelPathReportValid ==
  (evalCompletions > 0 /\ evalReply.kind # "none") =>
    /\ exc # "TypeError"
    /\ ReportKeys \subseteq DOMAIN report
    /\ EvalFailed =>
         /\ \A k \in ScoreKeys : report[k] = PyInt(5)
         /\ report["overall_score"] = PyFloat(50)
         /\ report["feedback"].t = "str"
         /\ evalReply.kind # "object" =>
              Contains(report["feedback"].s,
                       IF evalReply.kind = "raise" THEN evalReply.text
                       ELSE ErrText(evalReply.kind))

\* A score of the model's reply, 5 when the reply lacks it.
ScoreOr5(k) == IF k \in DOMAIN evalReply.obj THEN evalReply.obj[k].n ELSE 5

\* The model's reply is a JSON object whose scores, where present, are integers.
ObjectOfIntegers ==
  /\ evalCompletions > 0
  /\ evalReply.kind = "object"
  /\ \A k \in ScoreKeys \cap DOMAIN evalReply.obj : evalReply.obj[k].t = "int"

\* The weighted-average law: overall_score, in tenths, is 3a + 3r + 3s + c of
\* the reply's integers, unclamped, 5 standing for a missing one.
WeightedLaw ==
  ObjectOfIntegers =>
    /\ "overall_score" \in DOMAIN report
    /\ report["overall_score"] =
         PyFloat(3 * ScoreOr5("accuracy_score") + 3 * ScoreOr5("relevance_score")
                   + 3 * ScoreOr5("search_quality") + ScoreOr5("citation_quality"))

\* The reply of the spec's example has been evaluated.
ExampleEvaluated == evalCompletions > 0 /\ evalReply = ObjectReply(ExampleObject)

\* C5 as stated: the weighted-average law, and the scores 8, 6, 7, 9 give 6.9.
C5_AsStated ==
  /\ WeightedLaw
  /\ ExampleEvaluated => report["overall_score"] = PyFloat(69)

\* C5 as amended: the weighted-average law, and the scores 8, 6, 7, 9 give 7.2.
C5_WeightedOverall ==
  /\ WeightedLaw
  /\ ExampleEvaluated => report["overall_score"] = PyFloat(72)

\* C5 witness: the example's reply evaluated by evaluate_response itself.
C5_Witness ==
  /\ entry = "evaluate_response"
  /\ ExampleEvaluated
  /\ report["overall_score"] = PyFloat(72)

\* str(e) of the failure of rag_answer's completion call.
RagErrorText == IF ragReply.kind = "raise" THEN ragReply.text ELSE ErrText(ragReply.kind)

\* C6: with a key configured and the completion call failing, rag_answer
\* returns (nothing is raised) an answer holding the exception's message and
\* the whole context, and the search's results as sources, unchanged.
C6_FailureFallsBack ==
  (ragCompletions > 0 /\ ragReply.kind \notin {"none", "ok"}) =>
    /\ exc \notin {"TypeError", "RuntimeError"}
    /\ RagReturned
    /\ Contains(out.answer, RagErrorText)
    /\ Contains(out.answer, BuildContext(results))
    /\ out.sources = results
    /\ out.sources =
         [i \in 1..Len(out.sources) |-> ExpectedResult(backend.items[i])]

\* C6 witness: a timeout after a search that found two results.
C6_Witness ==
  /\ entry = "rag_answer"
  /\ pc = "done"
  /\ KeyConfigured
  /\ ragReply.kind = "raise"
  /\ Len(out.sources) = 2

\* C7: rag_answer calls the search once and the completion at most once, the
\* completion only after the search has returned: once with a key configured,
\* never without one, and then the answer is the no-key text and the context.
C7_OneSearchOneCompletion ==
  entry \in {"main", "rag_answer"} =>
    /\ searchCalls <= 1
    /\ ddgsCalls <= 1
    /\ ragCompletions <= 1
    /\ ragCompletions = 1 => (searchCalls = 1 /\ SearchReturned)
    /\ RagReturned =>
         /\ searchCalls = 1
         /\ ragCompletions = IF KeyConfigured THEN 1 ELSE 0
         /\ ~KeyConfigured => out.answer = NoKeyText \o BuildContext(results)

\* C7 witness: rag_answer returned without a key after a search with results.
C7_Witness ==
  /\ entry = "rag_answer"
  /\ pc = "done"
  /\ ~KeyConfigured
  /\ ragCompletions = 0
  /\ searchCalls = 1
  /\ results # <<>>

\* C8: main calls evaluate_response if and only if --evaluate denotes true.
C8_EvaluateIffOption ==
  (entry = "main" /\ pc \in {"done", "raised"} /\ RagReturned) =>
    (evalCalls > 0 <=> DenotesTrue(argv.evaluate))

\* C9: with a query that is not a string, search_duckduckgo raises TypeError
\* before any backend object exists, and rag_answer lets it through without a
\* completion call.
C9_NonStringRaisesFirst ==
  (entry \in {"rag_answer", "search_duckduckgo"} /\ query.t # "str") =>
    /\ ddgsCalls = 0
    /\ ragCompletions = 0
    /\ results = <<>>
    /\ out = NoOut
    /\ pc \in {entry, "raised"}
    /\ pc = "raised" => exc = "TypeError"
    /\ pc = entry => exc = "none"

\* C9 witness: rag_answer(7) with a key set and no backend installed.
C9_Witness ==
  /\ entry = "rag_answer"
  /\ query = PyInt(7)
  /\ KeyConfigured
  /\ ~DDGS
  /\ pc = "raised"
  /\ exc = "TypeError"

\* The score of the report under key k.
Score(k) == report[k].n

\* C10: without a key evaluate_response makes no model call; accuracy is 6
\* with sources and 4 without, relevance 7 above 20 words and 5 otherwise,
\* citation quality 8 with both brackets and 4 otherwise, overall their mean
\* to the nearest tenth; a repeated call returns the same report.
C10_HeuristicScores ==
  (evalCalls > 0 /\ ~KeyConfigured /\ report # NoReport) =>
    /\ evalCompletions = 0
    /\ Score("accuracy_score") = IF out.sources # <<>> THEN 6 ELSE 4
    /\ Score("relevance_score") = IF WordCount(out.answer) > 20 THEN 7 ELSE 5
    /\ Score("citation_quality") =
         IF (\E i \in 1..Len(out.answer) : out.answer[i] = "[")
            /\ (\E i \in 1..Len(out.answer) : out.answer[i] = "]")
         THEN 8 ELSE 4
    /\ LET sum == Score("accuracy_score") + Score("relevance_score")
                    + Score("citation_quality")
           d == 3 * Score("overall_score") - 10 * sum
       IN  -3 < 2 * d /\ 2 * d < 3
    /\ evalCalls >= 2 => report = prevReport

\* C10 witness: the second call on a long, cited answer with a source.
C10_Witness ==
  /\ entry = "evaluate_response"
  /\ evalCalls = 2
  /\ pc = "done"
  /\ ~KeyConfigured
  /\ out.sources # <<>>
  /\ WordCount(out.answer) > 20
  /\ Score("citation_quality") = 8
  /\ report = prevReport

====
